---- MODULE Spec2Model ----
(***************************************************************************)
(* Rock-Paper-Scissors-PLUS referee (game.py).                             *)
(*                                                                         *)
(* The state is the module-level game_state dictionary together with the   *)
(* locals of play_game that survive a blocking call (input() and the three *)
(* client.models.generate_content calls).  The controller (the remote      *)
(* model) and the user are the environment: every input line, every random *)
(* draw of the bot and every response part is chosen with \E.              *)
(*                                                                         *)
(* Strings that the code transforms (the raw input line) are sequences of  *)
(* one-character strings, so that lower() and strip() are computed.  Move  *)
(* tokens, once validated, are TLA+ strings.  json.dumps(result) is kept   *)
(* as the record it serialises; the f-string score_after "u-b" is kept as  *)
(* the pair <<u, b>>.                                                      *)
(***************************************************************************)
EXTENDS Integers, Sequences, FiniteSets, TLC

VARIABLES
    game_state,     \* the global dictionary game_state
    pc,             \* position of play_game
    user_input,     \* play_game local: the line read this turn
    is_valid,       \* play_game local: first component of validate_user_move
    clean_move,     \* play_game local: second component of validate_user_move
    bot_move,       \* play_game local: result of choose_bot_move
    tool_calls,     \* play_game local: the executed function calls of this response
    response_text,  \* play_game local: number of text parts concatenated so far
    nparts,         \* number of parts of the current response already iterated
    proposed,       \* the function call of the part being handled, as the controller sent it
    turn_start,     \* history variable: game_state when the current turn began
    ncommits,       \* history variable: number of calls of tool_update_game that returned
    verdict         \* the final verdict printed after the loop

vars == <<game_state, pc, user_input, is_valid, clean_move, bot_move, tool_calls,
          response_text, nparts, proposed, turn_start, ncommits, verdict>>

(***************************************************************************)
(* Bounds                                                                  *)
(***************************************************************************)
\* Largest number of parts in one controller response.
MaxParts == 2

(***************************************************************************)
(* Program constants                                                       *)
(***************************************************************************)
MaxRounds == 3

valid_moves == {"rock", "paper", "scissors", "bomb"}

moves == {"rock", "paper", "scissors"}

\* Faulty table: paper is entered as beating scissors.
WinsAgainstMutant == [rock |-> "scissors", paper |-> "scissors", scissors |-> "paper"]

wins_against == [rock |-> "scissors", paper |-> "rock", scissors |-> "paper"]

(***************************************************************************)
(* Text: lower() and strip() on sequences of characters                    *)
(***************************************************************************)
Whitespace == {" ", "\t"}

LowerChar(c) ==
    CASE c = "A" -> "a" [] c = "B" -> "b" [] c = "C" -> "c" [] c = "E" -> "e"
      [] c = "I" -> "i" [] c = "K" -> "k" [] c = "M" -> "m" [] c = "O" -> "o"
      [] c = "P" -> "p" [] c = "R" -> "r" [] c = "S" -> "s"
      [] OTHER -> c

Lower(s) == [i \in 1..Len(s) |-> LowerChar(s[i])]

RECURSIVE LStrip(_)
LStrip(s) == IF s # << >> /\ Head(s) \in Whitespace THEN LStrip(Tail(s)) ELSE s

RECURSIVE RStrip(_)
RStrip(s) ==
    IF s # << >> /\ s[Len(s)] \in Whitespace THEN RStrip(SubSeq(s, 1, Len(s) - 1)) ELSE s

Strip(s) == RStrip(LStrip(s))

\* The character sequence of a move token, and the token of a character sequence.
Chars(tok) ==
    CASE tok = "rock"     -> <<"r", "o", "c", "k">>
      [] tok = "paper"    -> <<"p", "a", "p", "e", "r">>
      [] tok = "scissors" -> <<"s", "c", "i", "s", "s", "o", "r", "s">>
      [] tok = "bomb"     -> <<"b", "o", "m", "b">>
      [] tok = "invalid"  -> <<"i", "n", "v", "a", "l", "i", "d">>

InValidMoves(s) == \E tok \in valid_moves : Chars(tok) = s

Token(s) == CHOOSE tok \in valid_moves : Chars(tok) = s

\* The lines the user may type.
RawInputs ==
    { <<"r", "o", "c", "k">>,
      <<" ", "P", "A", "P", "E", "R">>,
      <<"S", "c", "i", "s", "s", "o", "r", "s", " ">>,
      <<"b", "o", "m", "b">>,
      <<" ", "B", "o", "M", "b", "\t">>,
      << >>,
      <<" ", " ">>,
      <<"r", "o", " ", "c", "k">> }

(***************************************************************************)
(* GAME LOGIC                                                              *)
(***************************************************************************)
\* Faulty variant: the reuse of the bomb is tested on the line as typed.
validate_user_move_as_typed(gs, input) ==
    LET move == Strip(Lower(input)) IN
    IF ~InValidMoves(move) THEN <<FALSE, "invalid">>
    ELSE IF input = Chars("bomb") /\ gs.user_bomb_used THEN <<FALSE, "invalid">>
    ELSE <<TRUE, Token(move)>>

\* Lines 34-48, reading user_bomb_used from the game state gs.
validate_user_move(gs, input) ==
    LET move == Strip(Lower(input)) IN
    IF ~InValidMoves(move) THEN <<FALSE, "invalid">>
    ELSE IF Token(move) = "bomb" /\ gs.user_bomb_used THEN <<FALSE, "invalid">>
    ELSE <<TRUE, Token(move)>>

\* Faulty variant: resolves the cycle with the faulty table.
determine_round_winner_mutant(move1, move2) ==
    IF move1 = "invalid" THEN "bot"
    ELSE IF move1 = move2 THEN "draw"
    ELSE IF move1 = "bomb" THEN "user"
    ELSE IF move2 = "bomb" THEN "bot"
    ELSE IF WinsAgainstMutant[move1] = move2 THEN "user"
    ELSE "bot"

\* Faulty variant: the bomb tests come before the test for equal moves.
determine_round_winner_bomb_first(move1, move2) ==
    IF move1 = "invalid" THEN "bot"
    ELSE IF move1 = "bomb" THEN "user"
    ELSE IF move2 = "bomb" THEN "bot"
    ELSE IF move1 = move2 THEN "draw"
    ELSE IF wins_against[move1] = move2 THEN "user"
    ELSE "bot"

\* Faulty variant: the test for equal moves comes before the forfeit.
determine_round_winner_equal_first(move1, move2) ==
    IF move1 = move2 THEN "draw"
    ELSE IF move1 = "invalid" THEN "bot"
    ELSE IF move1 = "bomb" THEN "user"
    ELSE IF move2 = "bomb" THEN "bot"
    ELSE IF wins_against[move1] = move2 THEN "user"
    ELSE "bot"

\* Lines 51-73.
determine_round_winner(move1, move2) ==
    IF move1 = "invalid" THEN "bot"
    ELSE IF move1 = move2 THEN "draw"
    ELSE IF move1 = "bomb" THEN "user"
    ELSE IF move2 = "bomb" THEN "bot"
    ELSE IF wins_against[move1] = move2 THEN "user"
    ELSE "bot"

\* Faulty variant: the random bomb is not restricted to round 1.
choose_bot_move_any_round(gs) ==
    LET can_use_bomb == ~gs.bot_bomb_used IN
    IF can_use_bomb /\ gs.round = 2 /\ gs.bot_score < gs.user_score
    THEN {"bomb"}
    ELSE (IF can_use_bomb THEN {"bomb"} ELSE {}) \cup moves

\* Lines 76-90.
\* The set of moves choose_bot_move can return: random.random() < 0.2 and
\* random.choice(moves) are free choices.
choose_bot_move(gs) ==
    LET can_use_bomb == ~gs.bot_bomb_used IN
    IF can_use_bomb /\ gs.round = 2 /\ gs.bot_score < gs.user_score
    THEN {"bomb"}
    ELSE (IF can_use_bomb /\ gs.round = 1 THEN {"bomb"} ELSE {}) \cup moves

(***************************************************************************)
(* TOOLS                                                                   *)
(***************************************************************************)
\* Faulty variant: each bomb is booked on the other side.
bomb_flags_swapped(gs, umove, bmove) ==
    [user |-> IF bmove = "bomb" THEN TRUE ELSE gs.user_bomb_used,
     bot  |-> IF umove = "bomb" THEN TRUE ELSE gs.bot_bomb_used]

\* Lines 103-106: the bomb flags after a round with these moves.
bomb_flags(gs, umove, bmove) ==
    [user |-> IF umove = "bomb" THEN TRUE ELSE gs.user_bomb_used,
     bot  |-> IF bmove = "bomb" THEN TRUE ELSE gs.bot_bomb_used]

\* Faulty variant: a draw gives the bot a point.
update_scores_mutant(gs, winner) ==
    [user |-> IF winner = "user" THEN gs.user_score + 1 ELSE gs.user_score,
     bot  |-> IF winner = "bot" THEN gs.bot_score + 1
              ELSE IF winner = "draw" THEN gs.bot_score + 1 ELSE gs.bot_score]

\* Lines 110-113: the scores after a round won by winner.
update_scores(gs, winner) ==
    [user |-> IF winner = "user" THEN gs.user_score + 1 ELSE gs.user_score,
     bot  |-> IF winner = "user" THEN gs.bot_score
              ELSE IF winner = "bot" THEN gs.bot_score + 1 ELSE gs.bot_score]

\* Faulty variant: > in place of >=.
update_game_over_mutant(gs, new_round) ==
    IF new_round > gs.max_rounds THEN TRUE ELSE gs.game_over

\* Lines 115-116: game_over after the round counter became new_round.
update_game_over(gs, new_round) ==
    IF new_round >= gs.max_rounds THEN TRUE ELSE gs.game_over

\* Faulty variant: the round record is not appended to history.
tool_update_game_mutant(gs, umove, bmove) ==
    LET winner == determine_round_winner(umove, bmove)
        flags  == bomb_flags(gs, umove, bmove)
        scores == update_scores(gs, winner)
        after  == [gs EXCEPT !.round = gs.round + 1,
                             !.user_bomb_used = flags.user,
                             !.bot_bomb_used = flags.bot,
                             !.user_score = scores.user,
                             !.bot_score = scores.bot,
                             !.game_over = update_game_over(gs, gs.round + 1)]
    IN  [state  |-> after,
         result |-> [success      |-> TRUE,
                     round_number |-> after.round,
                     user_move    |-> umove,
                     bot_move     |-> bmove,
                     round_winner |-> winner,
                     user_score   |-> after.user_score,
                     bot_score    |-> after.bot_score,
                     game_over    |-> after.game_over]]

\* Faulty variant: the result is built from the state before the increment
\* of round.
tool_update_game_stale_result(gs, umove, bmove) ==
    LET winner == determine_round_winner(umove, bmove)
        flags  == bomb_flags(gs, umove, bmove)
        scores == update_scores(gs, winner)
        step   == [gs EXCEPT !.round = gs.round + 1,
                             !.user_bomb_used = flags.user,
                             !.bot_bomb_used = flags.bot,
                             !.user_score = scores.user,
                             !.bot_score = scores.bot,
                             !.game_over = update_game_over(gs, gs.round + 1)]
        round_record == [round       |-> step.round,
                         user_move   |-> umove,
                         bot_move    |-> bmove,
                         winner      |-> winner,
                         score_after |-> <<step.user_score, step.bot_score>>]
        after  == [step EXCEPT !.history = Append(gs.history, round_record)]
    IN  [state  |-> after,
         result |-> [success      |-> TRUE,
                     round_number |-> gs.round,
                     user_move    |-> umove,
                     bot_move     |-> bmove,
                     round_winner |-> winner,
                     user_score   |-> after.user_score,
                     bot_score    |-> after.bot_score,
                     game_over    |-> after.game_over]]

\* Lines 97-139.  The value is the pair of the new game_state and the returned
\* dictionary.  There is no test of game_over before the mutation.
tool_update_game(gs, umove, bmove) ==
    LET winner == determine_round_winner(umove, bmove)
        flags  == bomb_flags(gs, umove, bmove)
        scores == update_scores(gs, winner)
        step   == [gs EXCEPT !.round = gs.round + 1,
                             !.user_bomb_used = flags.user,
                             !.bot_bomb_used = flags.bot,
                             !.user_score = scores.user,
                             !.bot_score = scores.bot,
                             !.game_over = update_game_over(gs, gs.round + 1)]
        round_record == [round       |-> step.round,
                         user_move   |-> umove,
                         bot_move    |-> bmove,
                         winner      |-> winner,
                         score_after |-> <<step.user_score, step.bot_score>>]
        after  == [step EXCEPT !.history = Append(gs.history, round_record)]
    IN  [state  |-> after,
         result |-> [success      |-> TRUE,
                     round_number |-> after.round,
                     user_move    |-> umove,
                     bot_move     |-> bmove,
                     round_winner |-> winner,
                     user_score   |-> after.user_score,
                     bot_score    |-> after.bot_score,
                     game_over    |-> after.game_over]]

\* Lines 142-152.
tool_get_state(gs) ==
    [round          |-> gs.round,
     max_rounds     |-> gs.max_rounds,
     user_score     |-> gs.user_score,
     bot_score      |-> gs.bot_score,
     user_bomb_used |-> gs.user_bomb_used,
     game_over      |-> gs.game_over]

\* dict.get(key, default)
Get(args, key, default) == IF key \in DOMAIN args THEN args[key] ELSE default

\* Faulty variant: an unknown name is served as a read of the state.
execute_tool_mutant(gs, function_call) ==
    LET tool_name == function_call.name IN
    IF tool_name = "update_game_state"
    THEN LET args == function_call.args
         IN  tool_update_game(gs, Get(args, "user_move", "invalid"),
                                  Get(args, "bot_move", "rock"))
    ELSE [state |-> gs, result |-> tool_get_state(gs)]

\* Faulty variant: a read request is routed to the commit.
execute_tool_read_commits(gs, function_call) ==
    LET tool_name == function_call.name IN
    IF tool_name \in {"update_game_state", "get_game_state"}
    THEN LET args == function_call.args
         IN  tool_update_game(gs, Get(args, "user_move", "invalid"),
                                  Get(args, "bot_move", "rock"))
    ELSE [state |-> gs, result |-> [error |-> <<"Unknown tool: ", tool_name>>]]

\* Lines 155-171.  The f-string "Unknown tool: <name>" is the pair of its
\* prefix and the name.
execute_tool(gs, function_call) ==
    LET tool_name == function_call.name IN
    IF tool_name = "update_game_state"
    THEN LET args == function_call.args
         IN  tool_update_game(gs, Get(args, "user_move", "invalid"),
                                  Get(args, "bot_move", "rock"))
    ELSE IF tool_name = "get_game_state"
    THEN [state |-> gs, result |-> tool_get_state(gs)]
    ELSE [state |-> gs, result |-> [error |-> <<"Unknown tool: ", tool_name>>]]

(***************************************************************************)
(* The controller's side of the boundary                                   *)
(***************************************************************************)
NoArgs == [k \in {} |-> "none"]

\* The function calls the controller may put in a response part: commit
\* requests with missing and with hallucinated arguments, a read request and
\* a request for an action that was never declared.
FunctionCalls ==
    { [name |-> "update_game_state", args |-> NoArgs],
      [name |-> "update_game_state", args |-> [user_move |-> "bomb", bot_move |-> "bomb"]],
      [name |-> "get_game_state", args |-> NoArgs],
      [name |-> "reset_game", args |-> NoArgs] }

NoCall == [name |-> "", args |-> NoArgs]

SetArg(args, key, value) ==
    [k \in DOMAIN args \cup {key} |-> IF k = key THEN value ELSE args[k]]

\* Faulty variant: only bot_move is overwritten.
override_args_mutant(fc, clean, bot) ==
    IF fc.name = "update_game_state"
    THEN [fc EXCEPT !.args = SetArg(fc.args, "bot_move", bot)]
    ELSE fc

\* Lines 306-308: fc.args is overwritten with the turn's own moves.
override_args(fc, clean, bot) ==
    IF fc.name = "update_game_state"
    THEN [fc EXCEPT !.args = SetArg(SetArg(fc.args, "bot_move", bot), "user_move", clean)]
    ELSE fc

(***************************************************************************)
(* MAIN GAME LOOP                                                          *)
(***************************************************************************)
InitialGameState ==
    [round          |-> 0,
     max_rounds     |-> MaxRounds,
     user_score     |-> 0,
     bot_score      |-> 0,
     user_bomb_used |-> FALSE,
     bot_bomb_used  |-> FALSE,
     game_over      |-> FALSE,
     history        |-> << >>]

Init ==
    /\ game_state = InitialGameState
    /\ pc = "greet"
    /\ user_input = << >>
    /\ is_valid = FALSE
    /\ clean_move = "invalid"
    /\ bot_move = "rock"
    /\ tool_calls = << >>
    /\ response_text = 0
    /\ nparts = 0
    /\ proposed = NoCall
    /\ turn_start = InitialGameState
    /\ ncommits = 0
    /\ verdict = "none"

\* Lines 253-267: the greeting request returned.
Greet ==
    /\ pc = "greet"
    /\ pc' = "loop"
    /\ UNCHANGED <<game_state, user_input, is_valid, clean_move, bot_move, tool_calls,
                   response_text, nparts, proposed, turn_start, ncommits, verdict>>

\* Lines 270-286: the loop test, one line of input, validation and the bot's
\* choice.
ReadInput(line) ==
    /\ pc = "loop"
    /\ ~game_state.game_over
    /\ LET typed == Strip(line)
           text  == IF typed = << >> THEN Chars("invalid") ELSE typed
           v     == validate_user_move(game_state, text)
       IN  /\ user_input' = text
           /\ is_valid' = v[1]
           /\ clean_move' = v[2]
    /\ bot_move' \in choose_bot_move(game_state)
    /\ turn_start' = game_state
    /\ pc' = "request"
    /\ UNCHANGED <<game_state, tool_calls, response_text, nparts, proposed, ncommits, verdict>>

\* The locals of one iteration of the loop, before the iteration assigns them.
\* An iteration reads none of them after line 340 (tool_calls branch) or line
\* 357 (text branch), so past that point they carry this value.
NoLocals ==
    /\ user_input' = << >>
    /\ is_valid' = FALSE
    /\ clean_move' = "invalid"
    /\ bot_move' = "rock"
    /\ tool_calls' = << >>
    /\ response_text' = 0
    /\ nparts' = 0
    /\ proposed' = NoCall

\* Lines 289-300: the request for actions returned a response.
ControllerRespond ==
    /\ pc = "request"
    /\ pc' = "parts"
    /\ tool_calls' = << >>
    /\ response_text' = 0
    /\ nparts' = 0
    /\ UNCHANGED <<game_state, user_input, is_valid, clean_move, bot_move, proposed,
                   turn_start, ncommits, verdict>>

\* Lines 253, 289, 341: generate_content raised.  Nothing in play_game catches
\* it, so the frame of play_game and its locals are gone; the handler at
\* lines 392-397 prints the error and the process ends.
ControllerFail ==
    /\ pc \in {"greet", "request", "narrate"}
    /\ pc' = "aborted"
    /\ NoLocals
    /\ UNCHANGED <<game_state, turn_start, ncommits, verdict>>

\* Lines 302-315: one part of the response that carries a function call.
FunctionCallPart(fc) ==
    /\ pc = "parts"
    /\ nparts < MaxParts
    /\ LET sent == override_args(fc, clean_move, bot_move)
           r    == execute_tool(game_state, sent)
       IN  /\ game_state' = r.state
           /\ tool_calls' = Append(tool_calls, [function_call |-> sent, result |-> r.result])
           /\ ncommits' = IF sent.name = "update_game_state" THEN ncommits + 1 ELSE ncommits
    /\ proposed' = fc
    /\ nparts' = nparts + 1
    /\ UNCHANGED <<pc, user_input, is_valid, clean_move, bot_move, response_text,
                   turn_start, verdict>>

\* Lines 302, 317-318: one part of the response that carries text.
TextPart ==
    /\ pc = "parts"
    /\ nparts < MaxParts
    /\ response_text' = response_text + 1
    /\ nparts' = nparts + 1
    /\ proposed' = NoCall
    /\ UNCHANGED <<game_state, pc, user_input, is_valid, clean_move, bot_move, tool_calls,
                   turn_start, ncommits, verdict>>

\* Lines 320-340 and 356-361: the parts are exhausted.  With tool calls the
\* results are packed into the conversation and the narration request is
\* sent; without, the text is printed and the iteration ends.
EndParts ==
    /\ pc = "parts"
    /\ pc' = IF tool_calls # << >> THEN "narrate" ELSE "loop"
    /\ NoLocals
    /\ UNCHANGED <<game_state, turn_start, ncommits, verdict>>

\* Lines 341-355: the narration request returned.
Narrate ==
    /\ pc = "narrate"
    /\ pc' = "loop"
    /\ UNCHANGED <<game_state, user_input, is_valid, clean_move, bot_move, tool_calls,
                   response_text, nparts, proposed, turn_start, ncommits, verdict>>

\* Lines 369-374: the overall winner printed from the final scores.
final_verdict(gs) ==
    IF gs.user_score > gs.bot_score THEN "user"
    ELSE IF gs.bot_score > gs.user_score THEN "bot"
    ELSE "draw"

\* Lines 270, 363-378: the loop ends and the verdict is printed.
GameOver ==
    /\ pc = "loop"
    /\ game_state.game_over
    /\ verdict' = final_verdict(game_state)
    /\ pc' = "done"
    /\ UNCHANGED <<game_state, user_input, is_valid, clean_move, bot_move, tool_calls,
                   response_text, nparts, proposed, turn_start, ncommits>>

Next ==
    \/ Greet
    \/ \E line \in RawInputs : ReadInput(line)
    \/ ControllerRespond
    \/ ControllerFail
    \/ \E fc \in FunctionCalls : FunctionCallPart(fc)
    \/ TextPart
    \/ EndParts
    \/ Narrate
    \/ GameOver

Spec == Init /\ [][Next]_vars

\* play_game is the only thread and every call it blocks in (input() and
\* generate_content) returns or raises: a step that is possible is taken.
FairSpec == Spec /\ WF_vars(Next)

TypeOK ==
    /\ game_state.round \in Nat
    /\ pc \in {"greet", "loop", "request", "parts", "narrate", "done", "aborted"}
    /\ clean_move \in valid_moves \cup {"invalid"}
    /\ bot_move \in valid_moves
    /\ nparts \in 0..MaxParts

(***************************************************************************)
(* Properties                                                              *)
(***************************************************************************)
history == game_state.history

LastCall == tool_calls[Len(tool_calls)]

\* The step dispatched one more function call through execute_tool.
Dispatched == Len(tool_calls') = Len(tool_calls) + 1

\* The step ran tool_update_game.
Committed == ncommits' = ncommits + 1

BombRounds(side) ==
    {i \in DOMAIN history : IF side = "user" THEN history[i].user_move = "bomb"
                                             ELSE history[i].bot_move = "bomb"}

Draws == {i \in DOMAIN history : history[i].winner = "draw"}

\* rock beats scissors, scissors beats paper, paper beats rock
Beats == {<<"rock", "scissors">>, <<"scissors", "paper">>, <<"paper", "rock">>}

\* C1: a commit-round request dispatched while game_over is already true is
\* rejected: its result is a structured error, not a success result, and
\* game_state (round, scores, bomb flags, game_over, history) is unchanged.
C1_PostTerminationCommitRejected ==
    [][ (game_state.game_over /\ Dispatched
           /\ tool_calls'[Len(tool_calls')].function_call.name = "update_game_state")
        => /\ game_state' = game_state
           /\ "error" \in DOMAIN tool_calls'[Len(tool_calls')].result
           /\ "success" \notin DOMAIN tool_calls'[Len(tool_calls')].result ]_vars

\* C2: in every reachable state of play_game 0 <= round <= max_rounds and
\* history holds at most 3 records: a 4th round is never committed.
C2_RoundBounded ==
    /\ 0 <= game_state.round
    /\ game_state.round <= game_state.max_rounds
    /\ Len(history) <= 3

\* C3: across a whole game each side plays bomb at most once: history holds
\* at most one record whose user_move is bomb and at most one whose bot_move
\* is bomb.
C3_BombAtMostOncePerSide ==
    /\ Cardinality(BombRounds("user")) <= 1
    /\ Cardinality(BombRounds("bot")) <= 1

\* C4: every round committed during a turn records, and is resolved with, the
\* user move validate_user_move returned for the turn's input and the bot
\* move choose_bot_move returned for the turn, whatever arguments the
\* controller supplied.
C4_CommittedMovesAreGroundTruth ==
    pc = "parts" =>
        \A i \in (Len(turn_start.history) + 1)..Len(history) :
            /\ history[i].user_move = validate_user_move(turn_start, user_input)[2]
            /\ history[i].user_move = clean_move
            /\ history[i].bot_move = bot_move
            /\ history[i].bot_move \in choose_bot_move(turn_start)
            /\ history[i].winner = determine_round_winner(clean_move, bot_move)

\* A commit request with hallucinated arguments (bomb, bomb) was just handled
\* in a turn whose moves are rock and a move other than bomb.
C4_Witness ==
    /\ pc = "parts"
    /\ proposed = [name |-> "update_game_state",
                   args |-> [user_move |-> "bomb", bot_move |-> "bomb"]]
    /\ Len(history) = Len(turn_start.history) + 1
    /\ clean_move = "rock"
    /\ bot_move = "paper"
    /\ history[Len(history)].user_move = "rock"
    /\ history[Len(history)].bot_move = "paper"

\* C5 as stated: after n commits round = n, len(history) = n and
\* user_score + bot_score = n.
C5_ScoresSumToCommits ==
    /\ game_state.round = ncommits
    /\ Len(history) = ncommits
    /\ game_state.user_score + game_state.bot_score = ncommits

\* C5 amended: after n commits round = n, len(history) = n and
\* user_score + bot_score = n minus the number of drawn rounds.
C5_ScoresSumToDecidedCommits ==
    /\ game_state.round = ncommits
    /\ Len(history) = ncommits
    /\ game_state.user_score + game_state.bot_score = ncommits - Cardinality(Draws)

\* Three commits, one of them a draw, the scores summing to 2.
C5_Witness ==
    /\ ncommits = 3
    /\ Cardinality(Draws) = 1
    /\ game_state.user_score + game_state.bot_score = 2

\* C6: both scores are >= 0 and their sum is <= round in every state; a
\* commit raises the sum by exactly 1 when the round winner is user or bot
\* and by 0 when the round is a draw.
C6_ScoresBoundedByRound ==
    /\ [](/\ game_state.user_score >= 0
          /\ game_state.bot_score >= 0
          /\ game_state.user_score + game_state.bot_score <= game_state.round)
    /\ [][ Committed =>
             LET w == game_state'.history[Len(game_state'.history)].winner
                 before == game_state.user_score + game_state.bot_score
                 after  == game_state'.user_score + game_state'.bot_score
             IN  /\ w \in {"user", "bot"} => after = before + 1
                 /\ w = "draw" => after = before
                 /\ w \in {"user", "bot", "draw"} ]_vars

\* A drawn round was committed after a decided one: the sum stays below round.
C6_Witness ==
    /\ Len(history) = 2
    /\ history[1].winner = "user"
    /\ history[2].winner = "draw"
    /\ game_state.user_score = 1
    /\ game_state.bot_score = 0
    /\ game_state.round = 2

\* C7: game_over is true iff round >= max_rounds; it first becomes true in
\* the commit that takes round to exactly 3; once true it is never false again.
C7_GameOverIffRoundsPlayed ==
    /\ [](game_state.game_over <=> game_state.round >= game_state.max_rounds)
    /\ [][ (~game_state.game_over /\ game_state'.game_over)
             => (Committed /\ game_state'.round = 3 /\ game_state.round = 2) ]_vars
    /\ [][ game_state.game_over => game_state'.game_over ]_vars

\* The commit of this turn took round to 3 and set game_over.
C7_Witness ==
    /\ pc = "parts"
    /\ ~turn_start.game_over
    /\ game_state.game_over
    /\ game_state.round = 3

\* C8: a function call whose name is neither update_game_state nor
\* get_game_state yields the error result that names it, leaves game_state
\* unchanged and does not raise: the iteration over the response goes on, and
\* a turn whose calls were all unknown still has the round it started with.
C8_UnknownActionIsStructuredError ==
    /\ [][ (Dispatched /\ tool_calls'[Len(tool_calls')].function_call.name
                            \notin {"update_game_state", "get_game_state"})
           => /\ tool_calls'[Len(tool_calls')].result =
                    [error |-> <<"Unknown tool: ",
                                 tool_calls'[Len(tool_calls')].function_call.name>>]
              /\ game_state' = game_state
              /\ pc' = "parts" ]_vars
    /\ []( (pc = "parts" /\ \A i \in DOMAIN tool_calls :
                               tool_calls[i].function_call.name = "reset_game")
           => (game_state = turn_start /\ game_state.round = turn_start.round) )

\* An unknown action was handled in the second turn; the round is still 1.
C8_Witness ==
    /\ pc = "parts"
    /\ tool_calls # << >>
    /\ LastCall.function_call.name = "reset_game"
    /\ LastCall.result = [error |-> <<"Unknown tool: ", "reset_game">>]
    /\ game_state.round = 1
    /\ game_state = turn_start

\* C9: when a controller call of a turn fails, the turn aborts with
\* game_state equal to its value at the start of that turn.
C9_AbortLeavesTurnStart ==
    pc = "aborted" => game_state = turn_start

\* C10: on {rock, paper, scissors} determine_round_winner is antisymmetric,
\* gives a draw on equal moves and follows the cycle rock beats scissors,
\* scissors beats paper, paper beats rock; so does every recorded round.
C10_ResolveAntisymmetric ==
    /\ \A m1 \in moves : \A m2 \in moves :
          /\ determine_round_winner(m1, m2) = "user"
                <=> determine_round_winner(m2, m1) = "bot"
          /\ determine_round_winner(m1, m1) = "draw"
          /\ determine_round_winner(m1, m2) = "user" <=> <<m1, m2>> \in Beats
    /\ \A i \in DOMAIN history :
          (history[i].user_move \in moves /\ history[i].bot_move \in moves)
          => history[i].winner =
                IF history[i].user_move = history[i].bot_move THEN "draw"
                ELSE IF <<history[i].user_move, history[i].bot_move>> \in Beats THEN "user"
                ELSE "bot"

\* Two recorded rounds with mirrored moves: the user won one, the bot the other.
C10_Witness ==
    \E i \in DOMAIN history : \E j \in DOMAIN history :
        /\ history[i].user_move \in moves
        /\ history[i].bot_move \in moves
        /\ history[j].user_move = history[i].bot_move
        /\ history[j].bot_move = history[i].user_move
        /\ history[i].winner = "user"
        /\ history[j].winner = "bot"

\* Every move token of the game, the forfeit sentinel included.
AllMoves == valid_moves \cup {"invalid"}

\* C11: determine_round_winner(bomb, bomb) is draw; (bomb, x) is user and
\* (x, bomb) is bot for every move x other than bomb; so is every recorded
\* round in which a bomb was played.
C11_BombBeatsAllButBomb ==
    /\ determine_round_winner("bomb", "bomb") = "draw"
    /\ \A x \in AllMoves \ {"bomb"} :
          /\ determine_round_winner("bomb", x) = "user"
          /\ determine_round_winner(x, "bomb") = "bot"
    /\ \A i \in DOMAIN history :
          /\ (history[i].user_move = "bomb" /\ history[i].bot_move = "bomb")
                => history[i].winner = "draw"
          /\ (history[i].user_move = "bomb" /\ history[i].bot_move # "bomb")
                => history[i].winner = "user"
          /\ (history[i].user_move # "bomb" /\ history[i].bot_move = "bomb")
                => history[i].winner = "bot"

\* A round of bomb against bomb was recorded as a draw after a round the user
\* won with another move.
C11_Witness ==
    /\ Len(history) = 2
    /\ history[1].winner = "user"
    /\ history[2].user_move = "bomb"
    /\ history[2].bot_move = "bomb"
    /\ history[2].winner = "draw"
    /\ game_state.user_bomb_used
    /\ game_state.bot_bomb_used

\* The line fails validation: it is not a move token once lowered and
\* trimmed, or it is bomb while the user's bomb is already used.
FailsValidation(gs, line) ==
    \/ \A tok \in valid_moves : Strip(Lower(line)) # Chars(tok)
    \/ Strip(Lower(line)) = Chars("bomb") /\ gs.user_bomb_used

\* C12: a round whose input fails validation is forfeit to the bot whatever
\* the bot's move: determine_round_winner(invalid, y) is bot for every y,
\* invalid included; the turn's move is invalid exactly when the input fails
\* validation; committing it adds 1 to bot_score and leaves user_score and
\* user_bomb_used as they were.
C12_InvalidInputForfeitsRound ==
    /\ [](\A y \in AllMoves : determine_round_winner("invalid", y) = "bot")
    /\ [](pc \in {"request", "parts"} =>
            /\ is_valid <=> ~FailsValidation(turn_start, user_input)
            /\ ~is_valid <=> clean_move = "invalid")
    /\ [][ (Committed /\ ~is_valid) =>
             /\ game_state'.history[Len(game_state'.history)].user_move = "invalid"
             /\ game_state'.history[Len(game_state'.history)].winner = "bot"
             /\ game_state'.bot_score = game_state.bot_score + 1
             /\ game_state'.user_score = game_state.user_score
             /\ game_state'.user_bomb_used = game_state.user_bomb_used ]_vars

\* The user typed BoMb with the bomb already used; the round was committed
\* against the bot's scissors and went to the bot.
C12_Witness ==
    /\ pc = "parts"
    /\ user_input = <<"B", "o", "M", "b">>
    /\ turn_start.user_bomb_used
    /\ ~is_valid
    /\ Len(history) = Len(turn_start.history) + 1
    /\ history[Len(history)].user_move = "invalid"
    /\ history[Len(history)].bot_move = "scissors"
    /\ history[Len(history)].winner = "bot"
    /\ game_state.bot_score = turn_start.bot_score + 1
    /\ game_state.user_score = turn_start.user_score

\* Casings and paddings of "bomb".
BombInputs ==
    { <<"b", "o", "m", "b">>,
      <<"B", "O", "M", "B">>,
      <<"B", "o", "M", "b">>,
      <<" ", "B", "o", "m", "b">>,
      <<"b", "o", "m", "B", " ", "\t">>,
      <<"\t", " ", "b", "O", "m", "b", " ">> }

\* C13: a bomb flag that is true stays true, and while user_bomb_used is true
\* validate_user_move returns (False, invalid) for every casing and padding
\* of "bomb".
C13_BombFlagsStickAndBlockBomb ==
    /\ [][ game_state.user_bomb_used => game_state'.user_bomb_used ]_vars
    /\ [][ game_state.bot_bomb_used => game_state'.bot_bomb_used ]_vars
    /\ [](game_state.user_bomb_used =>
            \A line \in BombInputs :
                validate_user_move(game_state, line) = <<FALSE, "invalid">>)

\* Both bombs are used, a later round has been committed since, and the user
\* has just typed BoMb again: the move of the turn is invalid.
C13_Witness ==
    /\ pc = "request"
    /\ game_state.user_bomb_used
    /\ game_state.bot_bomb_used
    /\ Len(history) = 2
    /\ history[1].user_move = "bomb"
    /\ history[2].bot_move = "bomb"
    /\ user_input = <<"B", "o", "M", "b">>
    /\ ~is_valid
    /\ clean_move = "invalid"

\* The rounds of the scenario: (rock, scissors), (bomb, paper), (paper, bomb).
ScenarioMoves == << <<"rock", "scissors">>, <<"bomb", "paper">>, <<"paper", "bomb">> >>

\* The first n committed rounds are the first n rounds of the scenario.
Follows(n) ==
    /\ Len(history) >= n
    /\ \A i \in 1..n : <<history[i].user_move, history[i].bot_move>> = ScenarioMoves[i]

\* C14: committing (rock, scissors), (bomb, paper), (paper, bomb) from the
\* initial state gives: user wins, 1-0; user wins, 2-0, user_bomb_used; bot
\* wins, 2-1, bot_bomb_used, game_over; and the final verdict is the user.
C14_ScenarioUserWinsTwoOne ==
    /\ Follows(1) => /\ history[1].winner = "user"
                     /\ history[1].score_after = <<1, 0>>
    /\ (Follows(1) /\ Len(history) = 1) =>
          /\ game_state.user_score = 1
          /\ game_state.bot_score = 0
          /\ ~game_state.game_over
    /\ Follows(2) => /\ history[2].winner = "user"
                     /\ history[2].score_after = <<2, 0>>
    /\ (Follows(2) /\ Len(history) = 2) =>
          /\ game_state.user_score = 2
          /\ game_state.bot_score = 0
          /\ game_state.user_bomb_used
          /\ ~game_state.bot_bomb_used
          /\ ~game_state.game_over
    /\ Follows(3) => /\ history[3].winner = "bot"
                     /\ history[3].score_after = <<2, 1>>
    /\ (Follows(3) /\ Len(history) = 3) =>
          /\ game_state.user_score = 2
          /\ game_state.bot_score = 1
          /\ game_state.user_bomb_used
          /\ game_state.bot_bomb_used
          /\ game_state.game_over
          /\ final_verdict(game_state) = "user"
          /\ pc = "done" => verdict = "user"

\* The scenario was played to the end and the verdict printed.
C14_Witness ==
    /\ pc = "done"
    /\ Follows(3)
    /\ Len(history) = 3
    /\ verdict = "user"

\* C15: every run of play_game eventually reaches game_over = true or aborts
\* on a controller failure, whatever the controller answers.
C15_GameLoopEnds ==
    <>(game_state.game_over \/ pc = "aborted")

\* C16: the result of tool_get_state has the fields round, user_score,
\* bot_score, user_bomb_used, bot_bomb_used and game_over, each equal to the
\* current value in game_state, and has no history field.
C16_StateViewMirrorsGameState ==
    (pc = "parts" /\ tool_calls # << >>
       /\ LastCall.function_call.name = "get_game_state")
    => /\ {"round", "user_score", "bot_score", "user_bomb_used", "bot_bomb_used",
           "game_over"} \subseteq DOMAIN LastCall.result
       /\ LastCall.result.round = game_state.round
       /\ LastCall.result.user_score = game_state.user_score
       /\ LastCall.result.bot_score = game_state.bot_score
       /\ LastCall.result.user_bomb_used = game_state.user_bomb_used
       /\ LastCall.result.bot_bomb_used = game_state.bot_bomb_used
       /\ LastCall.result.game_over = game_state.game_over
       /\ "history" \notin DOMAIN LastCall.result

\* The catch-up case of choose_bot_move in the game state gs.
CatchUp(gs) == gs.round = 2 /\ ~gs.bot_bomb_used /\ gs.bot_score < gs.user_score

\* C17: choose_bot_move returns bomb whenever round = 2, the bot's bomb is
\* unused and the bot is behind; never bomb when the bot's bomb is used or
\* round = 0; otherwise a move of {rock, paper, scissors}, or bomb only when
\* round = 1 and the bot's bomb is unused.  So is the bot move of every turn.
C17_BotMovePolicy ==
    /\ CatchUp(game_state) => choose_bot_move(game_state) = {"bomb"}
    /\ (game_state.bot_bomb_used \/ game_state.round = 0)
          => "bomb" \notin choose_bot_move(game_state)
    /\ ~CatchUp(game_state) =>
          /\ choose_bot_move(game_state) \subseteq moves \cup {"bomb"}
          /\ moves \subseteq choose_bot_move(game_state)
          /\ "bomb" \in choose_bot_move(game_state)
                => (game_state.round = 1 /\ ~game_state.bot_bomb_used)
    /\ pc \in {"request", "parts"} =>
          /\ CatchUp(turn_start) => bot_move = "bomb"
          /\ (turn_start.bot_bomb_used \/ turn_start.round = 0) => bot_move # "bomb"
          /\ ~CatchUp(turn_start) =>
                /\ bot_move \in moves \cup {"bomb"}
                /\ bot_move = "bomb" => (turn_start.round = 1 /\ ~turn_start.bot_bomb_used)

\* Third round, the bot behind with its bomb unused: the bot chose bomb.
C17_Witness ==
    /\ pc = "request"
    /\ turn_start.round = 2
    /\ ~turn_start.bot_bomb_used
    /\ turn_start.bot_score < turn_start.user_score
    /\ bot_move = "bomb"

\* C18: game_state has one writer.  A step changes game_state only by running
\* tool_update_game for an update_game_state call; the step that validates
\* the input and chooses the bot move, and the dispatch of a get_game_state
\* call (which returns tool_get_state of the state), leave it unchanged.
C18_SingleWriter ==
    /\ [][ game_state' # game_state =>
             /\ Committed
             /\ Dispatched
             /\ tool_calls'[Len(tool_calls')].function_call.name = "update_game_state" ]_vars
    /\ [][ (pc = "loop" /\ pc' = "request") => game_state' = game_state ]_vars
    /\ [][ (Dispatched /\ tool_calls'[Len(tool_calls')].function_call.name = "get_game_state")
           => /\ game_state' = game_state
              /\ ~Committed
              /\ tool_calls'[Len(tool_calls')].result = tool_get_state(game_state) ]_vars

\* In the third turn a valid move was read, the bot chose, and a
\* get_game_state call was dispatched: game_state is as the turn found it.
C18_Witness ==
    /\ pc = "parts"
    /\ is_valid
    /\ Len(tool_calls) = 1
    /\ LastCall.function_call.name = "get_game_state"
    /\ LastCall.result.round = 2
    /\ game_state.round = 2
    /\ game_state = turn_start

\* C19: a turn commits at most one round: since the input of the current
\* turn was read, round has grown by at most 1 and history by at most one
\* record.
C19_OneRoundPerTurn ==
    /\ game_state.round <= turn_start.round + 1
    /\ Len(history) <= Len(turn_start.history) + 1

\* C20: the result of every commit reports the state the commit produced:
\* round_number is the new round, round_winner is determine_round_winner of
\* the two moves, user_score, bot_score and game_over are those of game_state
\* after the commit, and the record appended to history has the same round
\* number, moves, winner and score.
C20_CommitResultReportsNewState ==
    pc = "parts" =>
      /\ \A i \in DOMAIN tool_calls :
            tool_calls[i].function_call.name = "update_game_state" =>
              LET r == tool_calls[i].result IN
              /\ r.success
              /\ r.round_winner = determine_round_winner(r.user_move, r.bot_move)
              /\ r.round_number \in DOMAIN history
              /\ history[r.round_number].round = r.round_number
              /\ history[r.round_number].user_move = r.user_move
              /\ history[r.round_number].bot_move = r.bot_move
              /\ history[r.round_number].winner = r.round_winner
              /\ history[r.round_number].score_after = <<r.user_score, r.bot_score>>
              /\ r.game_over <=> r.round_number >= game_state.max_rounds
      /\ (tool_calls # << >> /\ LastCall.function_call.name = "update_game_state") =>
              /\ LastCall.result.round_number = game_state.round
              /\ LastCall.result.round_number = Len(history)
              /\ LastCall.result.user_score = game_state.user_score
              /\ LastCall.result.bot_score = game_state.bot_score
              /\ LastCall.result.game_over = game_state.game_over

\* The third round was just committed as a draw at 1-1: the result says
\* round 3, draw, 1-1, game over.
C20_Witness ==
    /\ pc = "parts"
    /\ tool_calls # << >>
    /\ LastCall.function_call.name = "update_game_state"
    /\ LastCall.result.round_number = 3
    /\ LastCall.result.round_winner = "draw"
    /\ LastCall.result.user_score = 1
    /\ LastCall.result.bot_score = 1
    /\ LastCall.result.game_over
    /\ history[3].winner = "draw"
    /\ history[3].score_after = <<1, 1>>

====
